---- MODULE Spec2Model ----
(***************************************************************************)
(* Card win-rate analysis (app.py): the record store, the filter, the      *)
(* deduplicated per-group statistics and the two memoized steps.           *)
(*                                                                         *)
(* Column names of the source are Chinese; the model writes them in ASCII: *)
(*   group = 组别, color = 颜色, card_type = 类型, cn_name = 中文名,        *)
(*   card_name = 卡名, action = 行为, seat_order = 先后, player = 玩家,     *)
(*   round = 轮次, cost = 花费, outcome = 胜负, CODE = CODE.                *)
(* Result columns: win_rate = 胜率, total_count = 总场数, win_count =       *)
(* 胜场数, loss_count = 负场数, avg_round_all = 总场平均轮次, ...,           *)
(* dimension_label = 维度组合.  The win literal 赢 is written "win".        *)
(***************************************************************************)
EXTENDS Integers, Sequences, FiniteSets, TLC

VARIABLES
    csv,            \* rows of game_analysis.csv, as read_csv sees them
    ga,             \* the GameAnalyze resource: [loaded, df, multi_filters, range_filters]
    now,            \* wall clock, seconds
    filter_cache,   \* st.cache_data store of cached_filter: key -> [value, inserted]
    groupby_cache,  \* st.cache_data store of cached_groupby: key -> [value, inserted]
    computed_at,    \* per memoized function: key -> when its body last ran
    filter_args,    \* kwargs of the last cached_filter call
    df,             \* the filtered view render_filter returns
    dimensions,     \* selected_dimensions of the last run
    result,         \* the result table of the last run
    screen,         \* what the last run showed: "none", "table", "no_data", "exception"
    calls           \* the memoized calls of the last run, in order

vars == <<csv, ga, now, filter_cache, groupby_cache, computed_at, filter_args, df,
          dimensions, result, screen, calls>>

-----------------------------------------------------------------------------
(* Bounds of the model *)

\* longest input file of the aggregation and filter specifications
MaxRecords == 3
\* longest input file of the pipeline specifications
MaxCsvRows == 2
\* the clock stops here
MaxTime == 3600
\* the clock advances in steps of this many seconds
TickStep == 1800

-----------------------------------------------------------------------------
(* Constants of the program *)

\* ttl=3600 of both st.cache_data decorators
TTL == 3600

Win == "win"
NaN == "NaN"

COLOR_MAPPING ==
    (4 :> "wonder") @@ (8 :> "action") @@ (9 :> "leader") @@ (10 :> "farm_mine") @@
    (11 :> "event") @@ (12 :> "building") @@ (13 :> "unit") @@ (14 :> "government") @@
    (15 :> "blue_tech") @@ (16 :> "tactic") @@ (18 :> "aggression") @@ (21 :> "war")

ANAL_DIMS == <<"card_name", "action", "seat_order", "round", "cost", "player">>

\* the columns of the loaded frame
Columns ==
    {"group", "color", "card_type", "card_name", "action", "seat_order", "player",
     "round", "cost", "outcome", "CODE"}

\* columns read or derived with dtype 'category'
CategoricalColumns == {"outcome", "CODE", "player", "card_name", "card_type"}

MultiFilterColumns == <<"group", "card_type", "card_name", "action", "seat_order", "player">>
RangeFilterColumns == <<"round", "cost">>

-----------------------------------------------------------------------------
(* Sequences and numbers *)

Range(s) == {s[i] : i \in 1..Len(s)}

RECURSIVE GCD(_, _)
GCD(a, b) == IF b = 0 THEN a ELSE GCD(b, a % b)

\* n / d as a float: the reduced fraction; 0/0 is NaN
Frac(n, d) == IF d = 0 THEN <<0, 0>> ELSE <<n \div GCD(n, d), d \div GCD(n, d)>>

RECURSIVE SumOf(_, _)
SumOf(rows, stat) ==
    IF rows = <<>> THEN 0 ELSE rows[1][stat] + SumOf(Tail(rows), stat)

\* Series.mean(): NaN on an empty selection
Mean(rows, stat) == Frac(SumOf(rows, stat), Len(rows))

\* the order pandas sorts the values of a column in
ValueOrder(col) ==
    CASE col = "card_name"  -> <<"A", "B">>
      [] col = "player"     -> <<"X", "Y">>
      [] col = "action"     -> <<"draft", "play">>
      [] col = "seat_order" -> <<"first", "second">>
      [] col = "round"      -> <<1, 2, 3, 4>>
      [] col = "cost"       -> <<1, 2, 3, 4>>
      [] col = "group"      -> <<"PL", "RL">>
      [] col = "CODE"       -> <<"m1", "m2">>
      [] col = "outcome"    -> <<"loss", "win">>
      [] col = "card_type"  -> <<"action", "wonder", NaN>>

-----------------------------------------------------------------------------
(* GameAnalyze: the record store *)

\* df['颜色'].map(COLOR_MAPPING): a code that is no key maps to NaN
MapColor(color) == IF color \in DOMAIN COLOR_MAPPING THEN COLOR_MAPPING[color] ELSE NaN

\* one row through _load_df: card_type derived, cn_name renamed to card_name
LoadRow(raw) ==
    [group |-> raw.group, color |-> raw.color, card_type |-> MapColor(raw.color),
     card_name |-> raw.cn_name, action |-> raw.action, seat_order |-> raw.seat_order,
     player |-> raw.player, round |-> raw.round, cost |-> raw.cost,
     outcome |-> raw.outcome, CODE |-> raw.CODE]

\* a data frame: its rows in order and the categories of its categorical columns;
\* NaN is never a category
load_df(file) ==
    LET rows == [i \in 1..Len(file) |-> LoadRow(file[i])]
    IN  [rows |-> rows,
         cats |-> [c \in CategoricalColumns |-> {rows[i][c] : i \in 1..Len(rows)} \ {NaN}]]

EmptyFrame == [rows |-> <<>>, cats |-> [c \in CategoricalColumns |-> {}]]

\* GameAnalyze.__init__
GameAnalyze(file) ==
    LET frame == load_df(file)
    IN  [loaded |-> TRUE,
         df |-> frame,
         multi_filters |-> [c \in Range(MultiFilterColumns) |->
                               {frame.rows[i][c] : i \in 1..Len(frame.rows)}],
         range_filters |-> [c \in Range(RangeFilterColumns) |->
                               LET vs == {frame.rows[i][c] : i \in 1..Len(frame.rows)}
                               IN  <<CHOOSE v \in vs : \A w \in vs : v <= w,
                                     CHOOSE v \in vs : \A w \in vs : v >= w>>]]

\* before GameAnalyze() has run
NotLoaded ==
    [loaded |-> FALSE, df |-> EmptyFrame,
     multi_filters |-> [c \in Range(MultiFilterColumns) |-> {}],
     range_filters |-> [c \in Range(RangeFilterColumns) |-> <<0, 0>>]]

-----------------------------------------------------------------------------
(* cached_filter *)

\* RowPasses with between() taken to exclude the upper bound
RowPasses_exclusive(row, col, pred) ==
    CASE pred[1] = "multi" -> pred[2] = {} \/ row[col] \in pred[2]
      [] pred[1] = "range" -> pred[2][1] <= row[col] /\ row[col] < pred[2][2]
      [] OTHER -> TRUE

\* one predicate of kwargs on one row: ("multi", values) or ("range", (low, high))
RowPasses(row, col, pred) ==
    CASE pred[1] = "multi" -> pred[2] = {} \/ row[col] \in pred[2]
      [] pred[1] = "range" -> pred[2][1] <= row[col] /\ row[col] <= pred[2][2]
      [] OTHER -> TRUE

\* the body of cached_filter: df[filter_mask]
cached_filter(frame, kwargs) ==
    [rows |-> SelectSeq(frame.rows,
                        LAMBDA row : \A col \in DOMAIN kwargs : RowPasses(row, col, kwargs[col])),
     cats |-> frame.cats]

-----------------------------------------------------------------------------
(* calculate_stats and cached_groupby *)

\* DataFrame.drop_duplicates(): the first occurrence of each item is kept
RECURSIVE drop_duplicates(_)
drop_duplicates(s) ==
    IF s = <<>> THEN <<>>
    ELSE LET init == drop_duplicates(SubSeq(s, 1, Len(s) - 1))
             last == s[Len(s)]
         IN  IF \E i \in 1..Len(init) : init[i] = last THEN init ELSE Append(init, last)

\* KeyColumns with the match code alone as the key
KeyColumns_match_only(rows) == [i \in 1..Len(rows) |-> <<rows[i].CODE>>]

\* group.loc[mask, ['CODE', player]]
KeyColumns(rows) == [i \in 1..Len(rows) |-> <<rows[i].CODE, rows[i].player>>]

\* unique_count without drop_duplicates: the raw row count
unique_count_rows(rows) == Len(rows)

unique_count(rows) == Len(drop_duplicates(KeyColumns(rows)))

\* LossRows with the mask left all True
LossRows_all(group) == group

WinRows(group) == SelectSeq(group, LAMBDA r : r.outcome = Win)
LossRows(group) == SelectSeq(group, LAMBDA r : r.outcome # Win)

\* win_rate_of dividing the matches that were not won
win_rate_of_losses(wins, total) == IF total > 0 THEN Frac(total - wins, total) ELSE <<0, 1>>

win_rate_of(wins, total) == IF total > 0 THEN Frac(wins, total) ELSE <<0, 1>>

calculate_stats(group) ==
    [win_rate       |-> win_rate_of(unique_count(WinRows(group)), unique_count(group)),
     total_count    |-> unique_count(group),
     win_count      |-> unique_count(WinRows(group)),
     loss_count     |-> unique_count(LossRows(group)),
     avg_round_all  |-> Mean(group, "round"),
     avg_round_win  |-> Mean(WinRows(group), "round"),
     avg_round_loss |-> Mean(LossRows(group), "round"),
     avg_cost_all   |-> Mean(group, "cost"),
     avg_cost_win   |-> Mean(WinRows(group), "cost"),
     avg_cost_loss  |-> Mean(LossRows(group), "cost")]

\* the levels of one grouper: every category of a categorical column, the
\* values present of any other column, in sorted order
Levels(frame, col) ==
    SelectSeq(ValueOrder(col),
              LAMBDA v : IF col \in CategoricalColumns
                         THEN v \in frame.cats[col]
                         ELSE \E i \in 1..Len(frame.rows) : frame.rows[i][col] = v)

RECURSIVE Prefixed(_, _)
Prefixed(v, keys) ==
    IF keys = <<>> THEN <<>> ELSE <<(<<v>> \o keys[1])>> \o Prefixed(v, Tail(keys))

RECURSIVE KeyProduct(_)
RECURSIVE KeyProductFrom(_, _)
KeyProductFrom(levels, rest) ==
    IF levels = <<>> THEN <<>>
    ELSE Prefixed(levels[1], rest) \o KeyProductFrom(Tail(levels), rest)

\* the group index: the product of the groupers' levels, in lexicographic order
KeyProduct(levelss) ==
    IF levelss = <<>> THEN << <<>> >>
    ELSE KeyProductFrom(levelss[1], KeyProduct(Tail(levelss)))

GroupKeys(frame, dims) == KeyProduct([i \in 1..Len(dims) |-> Levels(frame, dims[i])])

GroupRows(frame, dims, key) ==
    SelectSeq(frame.rows, LAMBDA r : \A i \in 1..Len(dims) : r[dims[i]] = key[i])

\* df.groupby(dimensions).apply(calculate_stats).reset_index()
GroupbyApply(frame, dims) ==
    LET keys == GroupKeys(frame, dims)
    IN  [i \in 1..Len(keys) |->
            [key |-> keys[i], stats |-> calculate_stats(GroupRows(frame, dims, keys[i]))]]

\* KeepPlayed without the selection
KeepPlayed_all(table) == table

\* result[result.total_count > 0]
KeepPlayed(table) == SelectSeq(table, LAMBDA g : g.stats.total_count > 0)

\* df.groupby raises on a name that is no column and on an empty list
groupby_raises(dims) ==
    IF dims = <<>> THEN "ValueError"
    ELSE IF \E i \in 1..Len(dims) : dims[i] \notin Columns THEN "KeyError"
    ELSE ""

\* the body of cached_groupby
cached_groupby(frame, dims) == KeepPlayed(GroupbyApply(frame, dims))

-----------------------------------------------------------------------------
(* st.cache_data(ttl=3600) *)

\* an entry answers a call while the clock is before its insertion time plus ttl
cache_hit(cache, key, t) == key \in DOMAIN cache /\ t < cache[key].inserted + TTL

\* a miss stores the value with the time of insertion
cache_put(cache, key, value, t) == (key :> [value |-> value, inserted |-> t]) @@ cache

\* cache_read restarting the entry's time to live
cache_read_refresh(cache, key, t) ==
    (key :> [value |-> cache[key].value, inserted |-> t]) @@ cache

\* a hit leaves the store as it is
cache_read(cache, key, t) == cache

\* cache_raise storing an empty table for the failed call
cache_raise_stores(cache, key, t) == (key :> [value |-> <<>>, inserted |-> t]) @@ cache

\* a body that raises leaves the store as it is
cache_raise(cache, key, t) == cache

\* the arguments the entry of a cached_filter call is stored under
filter_key(frame, kwargs) == <<frame, kwargs>>

\* groupby_key with the dimension list taken as a set
groupby_key_unordered(frame, dims) == <<frame, Range(dims)>>

\* the arguments the entry of a cached_groupby call is stored under
groupby_key(frame, dims) == <<frame, dims>>

\* when the body last ran for the key, -1 if it never did
LastComputed(fn, key) ==
    IF key \in DOMAIN computed_at[fn] THEN computed_at[fn][key] ELSE -1

NoCalls == [cached_filter |-> <<>>, cached_groupby |-> <<>>]

-----------------------------------------------------------------------------
(* render_main: label and sort *)

\* str(value) of one dimension value
Str(col, v) == IF col \in {"round", "cost", "color"} THEN ToString(v) ELSE v

RECURSIVE Join(_, _)
Join(dims, key) ==
    IF Len(dims) = 0 THEN ""
    ELSE IF Len(dims) = 1 THEN Str(dims[1], key[1])
    ELSE Str(dims[1], key[1]) \o " - " \o Join(Tail(dims), Tail(key))

\* result[dimension_label] = ' - '.join(...)
WithLabel(table, dims) ==
    [i \in 1..Len(table) |->
        [key |-> table[i].key, stats |-> table[i].stats,
         dimension_label |-> Join(dims, table[i].key)]]

\* the table when the result has rows, the warning when it has none
Shown(table) == IF table # <<>> THEN "table" ELSE "no_data"

\* x sorts strictly before y on column by
Less(by, x, y) ==
    IF by = "win_rate"
    THEN x.stats.win_rate[1] * y.stats.win_rate[2] < y.stats.win_rate[1] * x.stats.win_rate[2]
    ELSE x.stats[by] < y.stats[by]

\* g put into the sorted s behind every row that does not sort after it
InsertSorted(s, g, by, ascending) ==
    LET after == {i \in 1..Len(s) : IF ascending THEN Less(by, g, s[i]) ELSE Less(by, s[i], g)}
        at == IF after = {} THEN Len(s) + 1 ELSE CHOOSE i \in after : \A j \in after : i <= j
    IN  SubSeq(s, 1, at - 1) \o <<g>> \o SubSeq(s, at, Len(s))

\* result.sort_values(by=sort_order, ascending=...): ties keep their order
RECURSIVE sort_values(_, _, _)
sort_values(table, by, ascending) ==
    IF table = <<>> THEN <<>>
    ELSE InsertSorted(sort_values(SubSeq(table, 1, Len(table) - 1), by, ascending),
                      table[Len(table)], by, ascending)

-----------------------------------------------------------------------------
(* The script: GameAnalyze() once, then render(ga) on every interaction *)

\* kwargs as render_filter builds it: every multiselect and every slider
FilterArgs(card_types, card_names, round_range) ==
    [c \in Range(MultiFilterColumns) \cup Range(RangeFilterColumns) |->
        CASE c = "card_type" -> <<"multi", card_types>>
          [] c = "card_name" -> <<"multi", card_names>>
          [] c = "round"     -> <<"range", round_range>>
          [] c = "cost"      -> <<"range", ga.range_filters["cost"]>>
          [] OTHER           -> <<"multi", {}>>]

\* the round sliders set: the whole range, its lower end alone, and the value
\* above the lower end alone (a value the slider offers, whether or not a row has it)
RoundChoices ==
    LET lo == ga.range_filters["round"][1]
        hi == ga.range_filters["round"][2]
    IN  {<<lo, hi>>, <<lo, lo>>} \cup (IF lo + 1 <= hi THEN {<<lo + 1, lo + 1>>} ELSE {})

\* the filter selections of the pipeline runs: the round slider alone
FilterChoices == {FilterArgs({}, {}, rr) : rr \in RoundChoices}

\* the dimension lists of the pipeline runs, chosen from ANAL_DIMS
DimensionChoices == {<<>>, <<"card_name">>}

\* (sort_order, ascending) as the two select boxes start
SortChoices == {<<"win_rate", FALSE>>}

\* the trace of one memoized call
Call(fn, key, hit, returned) ==
    [fn |-> fn, at |-> now, hit |-> hit, prev |-> LastComputed(fn, key),
     returned |-> returned, raised |-> ""]

\* the trace of a memoized call whose body raised
Raised(fn, key, exc) ==
    [fn |-> fn, at |-> now, hit |-> FALSE, prev |-> LastComputed(fn, key),
     returned |-> <<>>, raised |-> exc]

\* GameAnalyze(): the resource is built once per process
Load ==
    /\ ~ga.loaded
    /\ ga' = GameAnalyze(csv)
    /\ UNCHANGED <<csv, now, filter_cache, groupby_cache, computed_at, filter_args, df,
                   dimensions, result, screen, calls>>

\* time passes
Tick ==
    /\ now + TickStep <= MaxTime
    /\ now' = now + TickStep
    /\ UNCHANGED <<csv, ga, filter_cache, groupby_cache, computed_at, filter_args, df,
                   dimensions, result, screen, calls>>

\* render(ga): render_filter through the filter cache, then render_main through
\* the groupby cache, the label, the sort and the table or the warning
Render(kwargs, dims, sort_order, ascending) ==
    LET fkey == filter_key(ga.df, kwargs)
        fhit == cache_hit(filter_cache, fkey, now)
        view == IF fhit THEN filter_cache[fkey].value ELSE cached_filter(ga.df, kwargs)
        grouped == view.rows # <<>> /\ dims # <<>>
        gkey == groupby_key(view, dims)
        ghit == grouped /\ cache_hit(groupby_cache, gkey, now)
        table == IF ghit THEN groupby_cache[gkey].value ELSE cached_groupby(view, dims)
    IN  /\ ga.loaded
        /\ filter_args' = kwargs
        /\ dimensions' = dims
        /\ df' = view
        /\ filter_cache' = IF fhit THEN cache_read(filter_cache, fkey, now)
                                   ELSE cache_put(filter_cache, fkey, view, now)
        /\ groupby_cache' = IF ~grouped THEN groupby_cache
                            ELSE IF ghit THEN cache_read(groupby_cache, gkey, now)
                            ELSE cache_put(groupby_cache, gkey, table, now)
        /\ computed_at' =
              [cached_filter  |-> IF fhit THEN computed_at.cached_filter
                                  ELSE (fkey :> now) @@ computed_at.cached_filter,
               cached_groupby |-> IF ~grouped \/ ghit THEN computed_at.cached_groupby
                                  ELSE (gkey :> now) @@ computed_at.cached_groupby]
        /\ calls' = <<Call("cached_filter", fkey, fhit, view)>>
                     \o (IF grouped THEN <<Call("cached_groupby", gkey, ghit, table)>> ELSE <<>>)
        /\ result' = IF grouped
                      THEN sort_values(WithLabel(table, dims), sort_order, ascending)
                      ELSE <<>>
        /\ screen' = Shown(result')
        /\ UNCHANGED <<csv, ga, now>>

\* the records the input file is drawn from
PipelineRecords ==
    [group : {"RL"}, color : {4, 5}, cn_name : {"A", "B"}, action : {"play"},
     seat_order : {"first"}, player : {"X"}, round : {1, 3}, cost : {2},
     outcome : {Win}, CODE : {"m1"}]

\* the sequences over S of length 1 to n
RECURSIVE SeqsUpTo(_, _)
SeqsUpTo(S, n) ==
    IF n = 0 THEN {}
    ELSE LET shorter == SeqsUpTo(S, n - 1)
         IN  {<<x>> : x \in S} \cup shorter \cup {Append(q, x) : q \in shorter, x \in S}

InitWith(files) ==
    /\ csv \in files
    /\ ga = NotLoaded
    /\ now = 0
    /\ filter_cache = <<>>
    /\ groupby_cache = <<>>
    /\ computed_at = NoCalls
    /\ filter_args = <<>>
    /\ df = EmptyFrame
    /\ dimensions = <<>>
    /\ result = <<>>
    /\ screen = "none"
    /\ calls = <<>>

Init == InitWith(SeqsUpTo(PipelineRecords, MaxCsvRows))

Next ==
    \/ Load
    \/ \E kwargs \in FilterChoices, dims \in DimensionChoices, sort \in SortChoices :
          Render(kwargs, dims, sort[1], sort[2])

Spec == Init /\ [][Next]_vars

-----------------------------------------------------------------------------
(* The script while time passes: the same runs on a smaller file, with two   *)
(* filter selections and the two orders of one pair of dimensions.           *)

CacheRecords ==
    [group : {"RL"}, color : {4}, cn_name : {"A", "B"}, action : {"play"},
     seat_order : {"first"}, player : {"X"}, round : {3}, cost : {2},
     outcome : {Win, "loss"}, CODE : {"m1"}]

\* nothing selected, or card A selected where the file has it
CacheFilterChoices ==
    {FilterArgs({}, cn, ga.range_filters["round"]) :
        cn \in {{}} \cup {{v} : v \in ga.multi_filters["card_name"] \cap {"A"}}}

CacheDimensionChoices == {<<"card_name", "player">>, <<"player", "card_name">>}

CacheSortChoices == {<<"total_count", TRUE>>}

InitCache == InitWith(SeqsUpTo(CacheRecords, MaxCsvRows))

NextCache ==
    \/ Load
    \/ Tick
    \/ \E kwargs \in CacheFilterChoices, dims \in CacheDimensionChoices,
           sort \in CacheSortChoices :
          Render(kwargs, dims, sort[1], sort[2])

SpecCache == InitCache /\ [][NextCache]_vars

-----------------------------------------------------------------------------
(* The filter on its own: the body of cached_filter on the loaded frame, and *)
(* once more on the view it returned.                                        *)

FilterRecords ==
    [group : {"RL"}, color : {4}, cn_name : {"A", "B"}, action : {"play"},
     seat_order : {"first"}, player : {"X"}, round : {1, 2, 3}, cost : {2},
     outcome : {Win}, CODE : {"m1"}]

\* every selection of one card or none, with every range of the round slider
BodyFilterChoices ==
    {FilterArgs({}, cn, <<lo, hi>>) :
        cn \in {{}} \cup {{v} : v \in ga.multi_filters["card_name"]},
        lo \in ga.range_filters["round"][1]..ga.range_filters["round"][2],
        hi \in ga.range_filters["round"][1]..ga.range_filters["round"][2]}

InitFilter == InitWith(SeqsUpTo(FilterRecords, MaxRecords))

\* cached_filter(ga.df.copy(), **kwargs), the body alone
ApplyFilter(kwargs) ==
    /\ ga.loaded
    /\ kwargs["round"][2][1] <= kwargs["round"][2][2]
    /\ filter_args' = kwargs
    /\ df' = cached_filter(ga.df, kwargs)
    /\ calls' = <<Call("cached_filter", filter_key(ga.df, kwargs), FALSE, df')>>
    /\ UNCHANGED <<csv, ga, now, filter_cache, groupby_cache, computed_at, dimensions,
                   result, screen>>

\* the same kwargs applied to the view the first call returned
ApplyFilterAgain ==
    /\ Len(calls) = 1
    /\ calls[1].fn = "cached_filter"
    /\ df' = cached_filter(df, filter_args)
    /\ calls' = Append(calls, Call("cached_filter", filter_key(df, filter_args), FALSE, df'))
    /\ UNCHANGED <<csv, ga, now, filter_cache, groupby_cache, computed_at, filter_args,
                   dimensions, result, screen>>

NextFilter ==
    \/ Load
    \/ \E kwargs \in BodyFilterChoices : ApplyFilter(kwargs)
    \/ ApplyFilterAgain

SpecFilter == InitFilter /\ [][NextFilter]_vars

-----------------------------------------------------------------------------
(* The memoized functions called with arguments of the caller's choosing *)

\* dimension lists a caller may pass, "deck" being no column of the frame
CallerDimensionChoices ==
    {<<"card_name">>, <<"deck">>, <<"card_name", "deck">>, <<"deck", "player">>}

\* cached_filter(ga.df, **kwargs) through its cache
CallFilter(kwargs) ==
    LET fkey == filter_key(ga.df, kwargs)
        fhit == cache_hit(filter_cache, fkey, now)
        view == IF fhit THEN filter_cache[fkey].value ELSE cached_filter(ga.df, kwargs)
    IN  /\ ga.loaded
        /\ filter_args' = kwargs
        /\ df' = view
        /\ filter_cache' = IF fhit THEN cache_read(filter_cache, fkey, now)
                                   ELSE cache_put(filter_cache, fkey, view, now)
        /\ computed_at' = [computed_at EXCEPT !.cached_filter =
                              IF fhit THEN @ ELSE (fkey :> now) @@ @]
        /\ calls' = <<Call("cached_filter", fkey, fhit, view)>>
        /\ UNCHANGED <<csv, ga, now, groupby_cache, dimensions, result, screen>>

\* cached_groupby(df, dims) through its cache, on a view that has rows (the one
\* call site passes no other); an exception of the body passes through the
\* decorator to the caller
CallGroupby(dims) ==
    LET gkey == groupby_key(df, dims)
        ghit == cache_hit(groupby_cache, gkey, now)
        exc == groupby_raises(dims)
        table == IF ghit THEN groupby_cache[gkey].value ELSE cached_groupby(df, dims)
    IN  /\ df.rows # <<>>
        /\ dimensions' = dims
        /\ IF ~ghit /\ exc # ""
           THEN /\ groupby_cache' = cache_raise(groupby_cache, gkey, now)
                /\ computed_at' = computed_at
                /\ calls' = <<Raised("cached_groupby", gkey, exc)>>
                /\ result' = <<>>
                /\ screen' = "exception"
           ELSE /\ groupby_cache' = IF ghit THEN cache_read(groupby_cache, gkey, now)
                                            ELSE cache_put(groupby_cache, gkey, table, now)
                /\ computed_at' = [computed_at EXCEPT !.cached_groupby =
                                      IF ghit THEN @ ELSE (gkey :> now) @@ @]
                /\ calls' = <<Call("cached_groupby", gkey, ghit, table)>>
                /\ result' = table
                /\ screen' = "none"
        /\ UNCHANGED <<csv, ga, now, filter_cache, filter_args, df>>

InitCalls == InitWith(SeqsUpTo(CacheRecords, MaxCsvRows))

NextCalls ==
    \/ Load
    \/ \E kwargs \in CacheFilterChoices : CallFilter(kwargs)
    \/ \E dims \in CallerDimensionChoices : CallGroupby(dims)

SpecCalls == InitCalls /\ [][NextCalls]_vars

-----------------------------------------------------------------------------
(* The aggregation on its own: the file grows record by record and the     *)
(* unfiltered frame is grouped again after every change.                   *)

\* the records the file is drawn from
AggRecords ==
    [group : {"RL"}, color : {4}, cn_name : {"A", "B"}, action : {"play"},
     seat_order : {"first"}, player : {"X", "Y"}, round : {3}, cost : {2},
     outcome : {Win, "loss"}, CODE : {"m1", "m2"}]

\* the dimension lists chosen
AggDimensions == {<<"card_name">>, <<"player">>, <<"card_name", "player">>}

\* render_main's guards around the grouping, without the cache
Aggregated(frame, dims) ==
    IF frame.rows # <<>> /\ dims # <<>> THEN cached_groupby(frame, dims) ELSE <<>>

InitAgg ==
    /\ csv = <<>>
    /\ ga = NotLoaded
    /\ now = 0
    /\ filter_cache = <<>>
    /\ groupby_cache = <<>>
    /\ computed_at = NoCalls
    /\ filter_args = <<>>
    /\ df = EmptyFrame
    /\ dimensions = <<"card_name">>
    /\ result = <<>>
    /\ screen = "none"
    /\ calls = <<>>

\* one more record in the file; the frame is read and grouped again
ReadRecord(r) ==
    /\ Len(csv) < MaxRecords
    /\ csv' = Append(csv, r)
    /\ df' = load_df(csv')
    /\ result' = Aggregated(df', dimensions)
    /\ screen' = Shown(result')
    /\ UNCHANGED <<ga, now, filter_cache, groupby_cache, computed_at, filter_args,
                   dimensions, calls>>

\* another dimension list; the frame is grouped again
SelectDimensions(dims) ==
    /\ dims # dimensions
    /\ dimensions' = dims
    /\ result' = Aggregated(df, dims)
    /\ screen' = Shown(result')
    /\ UNCHANGED <<csv, ga, now, filter_cache, groupby_cache, computed_at,
                   filter_args, df, calls>>

NextAgg ==
    \/ \E r \in AggRecords : ReadRecord(r)
    \/ \E dims \in AggDimensions : SelectDimensions(dims)

SpecAgg == InitAgg /\ [][NextAgg]_vars

-----------------------------------------------------------------------------
(* Claims about the aggregation *)

\* the rows of the frame that fall in the group of key
InGroup(frame, dims, key) ==
    {i \in 1..Len(frame.rows) : \A k \in 1..Len(dims) : frame.rows[i][dims[k]] = key[k]}

\* the distinct (match_code, player) pairs among the rows at idx
Pairs(frame, idx) == {<<frame.rows[i].CODE, frame.rows[i].player>> : i \in idx}

WinIdx(frame, idx) == {i \in idx : frame.rows[i].outcome = Win}
LossIdx(frame, idx) == {i \in idx : frame.rows[i].outcome # Win}

\* C1: in every group of the result, total_count, win_count and loss_count are
\* the numbers of distinct (match_code, player) pairs among all rows, the rows
\* whose outcome is Win and the rows whose outcome is not Win of the group,
\* whatever the dimensions are (player among them or not).
C1_DedupCounts ==
    \A g \in 1..Len(result) :
        LET idx == InGroup(df, dimensions, result[g].key)
        IN  /\ result[g].stats.total_count = Cardinality(Pairs(df, idx))
            /\ result[g].stats.win_count = Cardinality(Pairs(df, WinIdx(df, idx)))
            /\ result[g].stats.loss_count = Cardinality(Pairs(df, LossIdx(df, idx)))

\* a group by player in which one pair has several rows and two matches are counted
C1_Witness ==
    /\ "player" \in Range(dimensions)
    /\ \E g \in 1..Len(result) :
          /\ result[g].stats.total_count = 2
          /\ Cardinality(InGroup(df, dimensions, result[g].key)) = 3

\* the pairs of the group that have a Win row and a row that is not Win
BothWays(frame, idx) == Pairs(frame, WinIdx(frame, idx)) \cap Pairs(frame, LossIdx(frame, idx))

\* C2 as stated: win_count + loss_count = total_count in every group.
C2_PartitionAsStated ==
    \A g \in 1..Len(result) :
        result[g].stats.win_count + result[g].stats.loss_count = result[g].stats.total_count

\* C2 amended: win_count + loss_count exceeds total_count by exactly the number
\* of pairs of the group that have both a Win row and a row that is not Win.
C2_PartitionAmended ==
    \A g \in 1..Len(result) :
        result[g].stats.win_count + result[g].stats.loss_count =
            result[g].stats.total_count
            + Cardinality(BothWays(df, InGroup(df, dimensions, result[g].key)))

\* a group with a pair counted as a win and as a loss next to a pair counted once
C2_Witness ==
    \E g \in 1..Len(result) :
        /\ result[g].stats.total_count = 2
        /\ result[g].stats.win_count + result[g].stats.loss_count = 3

\* the counts of the group of key in a table, zeros if the table has no such group
CountsOf(table, key) ==
    IF \E g \in 1..Len(table) : table[g].key = key
    THEN LET g == CHOOSE g \in 1..Len(table) : table[g].key = key
         IN  <<table[g].stats.total_count, table[g].stats.win_count,
               table[g].stats.loss_count>>
    ELSE <<0, 0, 0>>

KeyOf(row, dims) == [k \in 1..Len(dims) |-> row[dims[k]]]

\* the step read record r into a group that already holds its (match_code, player)
AddsDuplicate(r) ==
    /\ csv' = Append(csv, r)
    /\ \E i \in InGroup(df, dimensions, KeyOf(LoadRow(r), dimensions)) :
          df.rows[i].CODE = r.CODE /\ df.rows[i].player = r.player

\* the same, and a row of that pair in the group is a Win row iff r is
AddsAgreeingDuplicate(r) ==
    /\ csv' = Append(csv, r)
    /\ \E i \in InGroup(df, dimensions, KeyOf(LoadRow(r), dimensions)) :
          /\ df.rows[i].CODE = r.CODE /\ df.rows[i].player = r.player
          /\ (df.rows[i].outcome = Win) <=> (r.outcome = Win)

\* C3 as stated: a row added to a group with a (match_code, player) pair the group
\* already holds changes none of the three counts, whatever its other fields are.
C3_DuplicatesAsStated ==
    [][\A r \in AggRecords :
          AddsDuplicate(r) =>
              CountsOf(result', KeyOf(LoadRow(r), dimensions))
                  = CountsOf(result, KeyOf(LoadRow(r), dimensions))]_vars

\* C3 amended: such a row never changes total_count, and changes neither
\* win_count nor loss_count when the group already holds a row of that pair
\* that is a Win row iff the added row is.
C3_DuplicatesAmended ==
    [][\A r \in AggRecords :
          /\ AddsDuplicate(r) =>
                CountsOf(result', KeyOf(LoadRow(r), dimensions))[1]
                    = CountsOf(result, KeyOf(LoadRow(r), dimensions))[1]
          /\ AddsAgreeingDuplicate(r) =>
                CountsOf(result', KeyOf(LoadRow(r), dimensions))
                    = CountsOf(result, KeyOf(LoadRow(r), dimensions))]_vars

\* two rows were added to a pair's first row, one of them on another card, and
\* the single group still counts one match
C3_Witness ==
    /\ Len(csv) = 3
    /\ dimensions = <<"player">>
    /\ \A i \in 2..3 : csv[i].CODE = csv[1].CODE /\ csv[i].player = csv[1].player
                         /\ csv[i].outcome = csv[1].outcome
    /\ csv[3].cn_name # csv[1].cn_name
    /\ Len(result) = 1
    /\ result[1].stats.total_count = 1

\* C4: in every group of the result with total_count > 0, win_rate is
\* win_count / total_count and lies in [0, 1].
C4_WinRate ==
    \A g \in 1..Len(result) :
        result[g].stats.total_count > 0 =>
            /\ result[g].stats.win_rate[2] > 0
            /\ result[g].stats.win_rate[1] * result[g].stats.total_count
                   = result[g].stats.win_count * result[g].stats.win_rate[2]
            /\ 0 <= result[g].stats.win_rate[1]
            /\ result[g].stats.win_rate[1] <= result[g].stats.win_rate[2]
            /\ 0 <= result[g].stats.win_count
            /\ result[g].stats.win_count <= result[g].stats.total_count

\* a group that won one of three matches
C4_Witness ==
    \E g \in 1..Len(result) :
        /\ result[g].stats.total_count = 3
        /\ result[g].stats.win_count = 1
        /\ result[g].stats.win_rate = <<1, 3>>

-----------------------------------------------------------------------------
(* Claims about the filter *)

\* a row satisfies every predicate: Membership with an empty allowed set passes
\* all, Range is inclusive at both ends
Satisfies(row, kwargs) ==
    \A col \in DOMAIN kwargs :
        /\ kwargs[col][1] = "multi" =>
              (kwargs[col][2] = {} \/ row[col] \in kwargs[col][2])
        /\ kwargs[col][1] = "range" =>
              (kwargs[col][2][1] <= row[col] /\ row[col] <= kwargs[col][2][2])

\* out holds exactly the rows of src at the positions keep, in their order
ExactlyKept(out, src, keep) ==
    /\ Len(out) = Cardinality(keep)
    /\ \A i \in keep : out[Cardinality({k \in keep : k <= i})] = src[i]

\* C5: the filter returns exactly the rows of the view that satisfy every
\* predicate, in the view's order, and leaves the view as it was; applied to
\* its own result with the same filters it returns that result again.
C5_FilterExact ==
    calls # <<>> =>
        LET src == load_df(csv).rows
            keep == {i \in 1..Len(src) : Satisfies(src[i], filter_args)}
        IN  /\ ga.df = load_df(csv)
            /\ \A c \in 1..Len(calls) : ExactlyKept(calls[c].returned.rows, src, keep)
            /\ df = calls[Len(calls)].returned

\* a card selection and the slider kept two of three rows, and the filter was
\* applied a second time
C5_Witness ==
    /\ Len(calls) = 2
    /\ Len(csv) = 3
    /\ Len(df.rows) = 2
    /\ filter_args["card_name"][2] # {}
    /\ filter_args["round"][2] # ga.range_filters["round"]

-----------------------------------------------------------------------------
(* Claims about the caches *)

CacheOf(fn) == IF fn = "cached_filter" THEN filter_cache ELSE groupby_cache

KeyOfCall(fn) ==
    IF fn = "cached_filter" THEN filter_key(ga.df, filter_args)
    ELSE groupby_key(df, dimensions)

\* C6: a call is answered from the store iff the body ran for its key less
\* than TTL seconds before; otherwise the body runs and its value is stored
\* and returned.  The entry of a call answered from the store still carries
\* the time of its insertion.
C6_TimeToLive ==
    \A i \in 1..Len(calls) :
        LET c == calls[i]
            cache == CacheOf(c.fn)
            key == KeyOfCall(c.fn)
        IN  /\ c.hit <=> (c.prev >= 0 /\ c.at - c.prev < TTL)
            /\ key \in DOMAIN cache
            /\ cache[key].value = c.returned
            /\ cache[key].inserted = (IF c.hit THEN c.prev ELSE c.at)

\* one call of the run was answered from an entry stored earlier, another ran
\* its body again because its entry had expired
C6_Witness ==
    /\ \E i \in 1..Len(calls) : calls[i].hit /\ calls[i].at > calls[i].prev
    /\ \E i \in 1..Len(calls) : ~calls[i].hit /\ calls[i].prev >= 0

\* C7: whatever a cached_groupby call returns, from the store or from its
\* body, is the table of its own view and dimension list, and the labels of
\* the result follow that list; lists that differ only in order have
\* different keys.
C7_OrderSensitiveKey ==
    /\ \A i \in 1..Len(calls) :
          calls[i].fn = "cached_groupby" =>
              /\ calls[i].returned = cached_groupby(df, dimensions)
              /\ Len(result) = Len(calls[i].returned)
              /\ \A g \in 1..Len(result) :
                    /\ result[g].dimension_label = Join(dimensions, result[g].key)
                    /\ \E h \in 1..Len(calls[i].returned) :
                          /\ calls[i].returned[h].key = result[g].key
                          /\ calls[i].returned[h].stats = result[g].stats
    /\ \A d1, d2 \in CacheDimensionChoices :
          d1 # d2 => groupby_key(df, d1) # groupby_key(df, d2)

\* a call for (player, card_name) was answered from the store while the store
\* also held a live entry for (card_name, player) on the same view
C7_Witness ==
    /\ dimensions = <<"player", "card_name">>
    /\ \E i \in 1..Len(calls) : calls[i].fn = "cached_groupby" /\ calls[i].hit
    /\ cache_hit(groupby_cache, groupby_key(df, <<"card_name", "player">>), now)
    /\ Len(result) = 2

-----------------------------------------------------------------------------
(* Claims about errors and empty results *)

\* C8 as stated: a file with a color code that COLOR_MAPPING lacks is never
\* loaded, and no record without a card type reaches the filter.
C8_LoadRejectsUnmapped ==
    (\E i \in 1..Len(csv) : csv[i].color \notin DOMAIN COLOR_MAPPING) =>
        /\ ~ga.loaded
        /\ \A i \in 1..Len(df.rows) : df.rows[i].card_type # NaN

UnknownDimension(dims) == \E i \in 1..Len(dims) : dims[i] \notin Columns

\* C9: a cached_groupby call whose dimension list names no column of the frame
\* ends in an exception raised to the caller, returns no table, and leaves no
\* entry for the request in the cache; the body never completes for it.
C9_UnknownDimension ==
    (Len(calls) = 1 /\ calls[1].fn = "cached_groupby" /\ UnknownDimension(dimensions)) =>
        /\ calls[1].raised # ""
        /\ screen = "exception"
        /\ result = <<>>
        /\ groupby_key(df, dimensions) \notin DOMAIN groupby_cache
        /\ groupby_key(df, dimensions) \notin DOMAIN computed_at.cached_groupby

\* a call with an unknown name next to a known one raised, after other calls
\* had filled the cache
C9_Witness ==
    /\ Len(calls) = 1
    /\ calls[1].raised = "KeyError"
    /\ dimensions = <<"card_name", "deck">>
    /\ groupby_cache # <<>>

\* every group of the frame, played or not, has no match
AllGroupsEmpty ==
    /\ dimensions # <<>>
    /\ \A g \in 1..Len(GroupbyApply(df, dimensions)) :
          GroupbyApply(df, dimensions)[g].stats.total_count = 0

====
